---- MODULE Spec2Model ----
(***************************************************************************)
(* Model of scripts/bert/finetune_classifier.py: the control flow of       *)
(* train() and evaluate() -- trainer construction and its fallback, the    *)
(* learning-rate schedule, gradient accumulation, the optimizer update,    *)
(* progress logging and the per-epoch evaluation pass.                     *)
(*                                                                         *)
(* Tensors are abstracted: a gradient buffer is the sequence of the        *)
(* <<epoch_id, batch_id>> batches whose gradients have been summed into    *)
(* it, and the model parameters are the sequence of the optimizer updates  *)
(* applied to them.  Learning rates are exact rationals [num, den]; the    *)
(* base rate lr is a positive integer number of rate units.  Python's      *)
(* float arithmetic is taken as exact arithmetic.                          *)
(***************************************************************************)
EXTENDS Integers, Sequences, FiniteSets, TLC

\* ---- bounds of the explored inputs ----
MaxExamples == 4
MaxBatchSize == 2
MaxEpochs == 2
MaxAccumulate == 3
MaxLogInterval == 2
MaxExtraBatches == 1
MaxDevBatches == 1
MaxLr == 2
\* warmup_ratio ranges over k / WarmupDen, k in 0..WarmupDen
WarmupDen == 2

VARIABLES
  \* command line and data (fixed during a run)
  num_train_examples, batch_size, epochs, accumulate, args_log_interval,
  warmup_ratio, lr, num_batches, num_dev_batches,
  \* train() locals and the objects it drives
  pc, bound, num_train_steps, num_warmup_steps, step_num, grad_req,
  epoch_id, batch_id, new_lr, learning_rate, grad, params,
  step_loss, metric, logs,
  \* evaluate() locals
  dev_id, eval_loss, validations

argv == <<num_train_examples, batch_size, epochs, accumulate,
          args_log_interval, warmup_ratio, lr, num_batches, num_dev_batches>>
sched == <<num_train_steps, num_warmup_steps, grad_req>>
evalv == <<dev_id, eval_loss, validations>>
vars == <<argv, sched, evalv, pc, bound, step_num, epoch_id, batch_id,
          new_lr, learning_rate, grad, params, step_loss, metric, logs>>

\* ---- helpers ----
CeilDiv(a, b) == (a + b - 1) \div b

\* a rational number num/den, den > 0
Rat(n, d) == [num |-> n, den |-> d]
RatLess(a, b) == a.num * b.den < b.num * a.den
RatEq(a, b) == a.num * b.den = b.num * a.den

\* line 123: the interval the module computes for logging under accumulation
log_interval ==
  IF accumulate # 0 THEN args_log_interval * accumulate ELSE args_log_interval

\* line 265
step_size == IF accumulate # 0 THEN batch_size * accumulate ELSE batch_size

\* line 266: int(num_train_examples / step_size * args.epochs)
NumTrainSteps == (num_train_examples * epochs) \div step_size

\* line 268: int(num_train_steps * warmup_ratio)
NumWarmupSteps(T) == (T * warmup_ratio) \div WarmupDen

Init ==
  /\ num_train_examples \in 1..MaxExamples
  /\ batch_size \in 1..MaxBatchSize
  /\ epochs \in 1..MaxEpochs
  /\ accumulate \in 0..MaxAccumulate          \* 0 stands for None
  /\ args_log_interval \in 1..MaxLogInterval
  /\ warmup_ratio \in 0..WarmupDen
  /\ lr \in 1..MaxLr
  /\ \E extra \in 0..MaxExtraBatches :
       num_batches = CeilDiv(num_train_examples, batch_size) + extra
  /\ num_dev_batches \in 1..MaxDevBatches
  /\ pc = "train"
  /\ bound = {"optimizer_params_w", "optimizer_params_b"}
  /\ num_train_steps = 0
  /\ num_warmup_steps = 0
  /\ step_num = 0
  /\ grad_req = "write"
  /\ epoch_id = 0
  /\ batch_id = 0
  /\ new_lr = Rat(lr, 1)
  /\ learning_rate = Rat(lr, 1)
  /\ grad = << >>
  /\ params = << >>
  /\ step_loss = 0
  /\ metric = 0
  /\ logs = << >>
  /\ dev_id = 0
  /\ eval_loss = 0
  /\ validations = 0

\* ---- train(): trainer construction, lines 241-263 ----

\* lines 243-253: gluon.Trainer raises ValueError when args.optimizer is not
\* registered; otherwise both trainers are bound
CreateTrainers ==
  /\ pc = "train"
  /\ \E found \in BOOLEAN :
       IF found
       THEN /\ bound' = bound \cup {"trainer_w", "trainer_b"}
            /\ pc' = "steps"
       ELSE /\ bound' = bound
            /\ pc' = "except"
  /\ UNCHANGED <<argv, sched, evalv, step_num, epoch_id, batch_id, new_lr,
                 learning_rate, grad, params, step_loss, metric, logs>>

\* lines 254-263: the handler builds the substitute trainer from the name
\* optimizer_params, which no line of the module binds
ExceptValueError ==
  /\ pc = "except"
  /\ IF "optimizer_params" \in bound
     THEN /\ bound' = bound \cup {"trainer"}
          /\ pc' = "steps"
     ELSE /\ bound' = bound
          /\ pc' = "NameError"
  /\ UNCHANGED <<argv, sched, evalv, step_num, epoch_id, batch_id, new_lr,
                 learning_rate, grad, params, step_loss, metric, logs>>

\* lines 265-278
ComputeSteps ==
  /\ pc = "steps"
  /\ num_train_steps' = NumTrainSteps
  /\ num_warmup_steps' = NumWarmupSteps(NumTrainSteps)
  /\ step_num' = 0
  /\ grad_req' = IF accumulate # 0 THEN "add" ELSE grad_req
  /\ pc' = "epoch"
  /\ UNCHANGED <<argv, evalv, bound, epoch_id, batch_id, new_lr,
                 learning_rate, grad, params, step_loss, metric, logs>>

\* ---- train(): the epoch and batch loops, lines 280-333 ----

\* lines 280-283
EpochStart ==
  /\ pc = "epoch"
  /\ epoch_id < epochs
  /\ metric' = 0
  /\ step_loss' = 0
  /\ batch_id' = 0
  /\ pc' = "batch"
  /\ UNCHANGED <<argv, sched, evalv, bound, step_num, epoch_id, new_lr,
                 learning_rate, grad, params, logs>>

\* line 280: range(args.epochs) is exhausted, train() returns
TrainReturn ==
  /\ pc = "epoch"
  /\ epoch_id = epochs
  /\ pc' = "done"
  /\ UNCHANGED <<argv, sched, evalv, bound, step_num, epoch_id, batch_id,
                 new_lr, learning_rate, grad, params, step_loss, metric, logs>>

\* variant of StartsWindow: clears at the last batch of a window
StartsWindow_atEnd(bid) == (bid + 1) % accumulate = 0

\* line 287: the batch at which buffers are cleared and the step advanced
StartsWindow(bid) == bid % accumulate = 0

\* lines 284-291
NextBatch ==
  /\ pc = "batch"
  /\ batch_id < num_batches
  /\ IF accumulate # 0
     THEN IF StartsWindow(batch_id)
          THEN /\ grad' = << >>
               /\ step_num' = step_num + 1
          ELSE UNCHANGED <<grad, step_num>>
     ELSE /\ step_num' = step_num + 1
          /\ UNCHANGED grad
  /\ pc' = "schedule"
  /\ UNCHANGED <<argv, sched, evalv, bound, epoch_id, batch_id, new_lr,
                 learning_rate, params, step_loss, metric, logs>>

\* variant of LrSchedule: the decay offset counts from step 0 instead of
\* from the end of warmup
LrSchedule_noWarmupOffset(s, w, T) ==
  IF s < w
  THEN Rat(lr * s, w)
  ELSE Rat(lr * (T - w) - s * lr, T - w)

\* lines 293-298: the rate for step s with w warmup steps out of T steps
LrSchedule(s, w, T) ==
  IF s < w
  THEN Rat(lr * s, w)
  ELSE Rat(lr * (T - w) - (s - w) * lr, T - w)

\* lines 296-297: the divisor of the decay branch is zero
DividesByZero(s, w, T) == ~(s < w) /\ T - w = 0

\* lines 292-300
SetLearningRate ==
  /\ pc = "schedule"
  /\ IF DividesByZero(step_num, num_warmup_steps, num_train_steps)
     THEN /\ pc' = "ZeroDivisionError"
          /\ UNCHANGED <<new_lr, learning_rate>>
     ELSE /\ new_lr' = LrSchedule(step_num, num_warmup_steps, num_train_steps)
          /\ IF {"trainer_w", "trainer_b"} \subseteq bound
             THEN /\ learning_rate' = new_lr'
                  /\ pc' = "forward"
             ELSE /\ learning_rate' = learning_rate
                  /\ pc' = "NameError"
  /\ UNCHANGED <<argv, sched, evalv, bound, step_num, epoch_id, batch_id,
                 grad, params, step_loss, metric, logs>>

\* line 308 under grad_req: 'add' sums into the buffer, 'write' overwrites it
Backward(g, req, b) == IF req = "add" THEN Append(g, b) ELSE <<b>>

\* lines 301-308
ForwardBackward ==
  /\ pc = "forward"
  /\ grad' = Backward(grad, grad_req, <<epoch_id, batch_id>>)
  /\ pc' = "update"
  /\ UNCHANGED <<argv, sched, evalv, bound, step_num, epoch_id, batch_id,
                 new_lr, learning_rate, params, step_loss, metric, logs>>

\* line 310
UpdateDue(bid) == accumulate = 0 \/ (bid + 1) % accumulate = 0

\* lines 309-315: allreduce, clip by global norm and apply; clipping rescales
\* the buffer in place and leaves the batches summed in it as they are
Update ==
  /\ pc = "update"
  /\ IF UpdateDue(batch_id)
     THEN params' = Append(params,
            [grad |-> grad, lr |-> learning_rate, step |-> step_num,
             at |-> <<epoch_id, batch_id>>,
             rescale |-> IF accumulate # 0 THEN accumulate ELSE 1])
     ELSE params' = params
  /\ pc' = "log"
  /\ UNCHANGED <<argv, sched, evalv, bound, step_num, epoch_id, batch_id,
                 new_lr, learning_rate, grad, step_loss, metric, logs>>

\* line 318
LogDue(bid) == (bid + 1) % args_log_interval = 0

\* lines 316-328, then the next iteration of line 284
LogStep ==
  /\ pc = "log"
  /\ metric' = metric + 1
  /\ IF LogDue(batch_id)
     THEN /\ logs' = Append(logs,
               [at |-> <<epoch_id, batch_id>>, lr |-> learning_rate,
                loss |-> step_loss + 1])
          /\ step_loss' = 0
     ELSE /\ logs' = logs
          /\ step_loss' = step_loss + 1
  /\ batch_id' = batch_id + 1
  /\ pc' = "batch"
  /\ UNCHANGED <<argv, sched, evalv, bound, step_num, epoch_id, new_lr,
                 learning_rate, grad, params>>

\* lines 284, 329-330: train_data is exhausted, evaluate(metric) is called
EpochEnd ==
  /\ pc = "batch"
  /\ batch_id = num_batches
  /\ pc' = "evaluate"
  /\ UNCHANGED <<argv, sched, evalv, bound, step_num, epoch_id, batch_id,
                 new_lr, learning_rate, grad, params, step_loss, metric, logs>>

\* ---- evaluate(), lines 215-236 ----

\* lines 218-219
EvaluateStart ==
  /\ pc = "evaluate"
  /\ eval_loss' = 0
  /\ metric' = 0
  /\ dev_id' = 0
  /\ pc' = "dev_batch"
  /\ UNCHANGED <<argv, sched, validations, bound, step_num, epoch_id,
                 batch_id, new_lr, learning_rate, grad, params, step_loss,
                 logs>>

\* variant of EvaluateBatch: the dev batch is recorded and back-propagated
EvaluateBatch_backward ==
  /\ pc = "dev_batch"
  /\ dev_id < num_dev_batches
  /\ eval_loss' = eval_loss + 1
  /\ metric' = metric + 1
  /\ dev_id' = dev_id + 1
  /\ grad' = Backward(grad, grad_req, <<epoch_id, num_batches + dev_id>>)
  /\ UNCHANGED <<argv, sched, validations, pc, bound, step_num, epoch_id,
                 batch_id, new_lr, learning_rate, params, step_loss, logs>>

\* lines 220-229: forward outside autograd.record(), no backward, no update
EvaluateBatch ==
  /\ pc = "dev_batch"
  /\ dev_id < num_dev_batches
  /\ eval_loss' = eval_loss + 1
  /\ metric' = metric + 1
  /\ dev_id' = dev_id + 1
  /\ UNCHANGED <<argv, sched, validations, pc, bound, step_num, epoch_id,
                 batch_id, new_lr, learning_rate, grad, params, step_loss,
                 logs>>

\* lines 230-236, then lines 331-333 and the next iteration of line 280
EvaluateEnd ==
  /\ pc = "dev_batch"
  /\ dev_id = num_dev_batches
  /\ validations' = validations + 1
  /\ epoch_id' = epoch_id + 1
  /\ pc' = "epoch"
  /\ UNCHANGED <<argv, sched, dev_id, eval_loss, bound, step_num, batch_id,
                 new_lr, learning_rate, grad, params, step_loss, metric, logs>>

Next ==
  \/ CreateTrainers
  \/ ExceptValueError
  \/ ComputeSteps
  \/ EpochStart
  \/ TrainReturn
  \/ NextBatch
  \/ SetLearningRate
  \/ ForwardBackward
  \/ Update
  \/ LogStep
  \/ EpochEnd
  \/ EvaluateStart
  \/ EvaluateBatch
  \/ EvaluateEnd

Spec == Init /\ [][Next]_vars

\* ---- properties ----

\* C1: with an accumulation window A > 1, a whole run of train() invokes the
\* optimizer update ceil(total_batches / A) times, total_batches being the
\* number of batches of all epochs.
C1_UpdatesCeilOfBatches ==
  (pc = "done" /\ accumulate > 1)
    => Len(params) = CeilDiv(epochs * num_batches, accumulate)

\* C2: the learning-rate schedule never divides by zero; when
\* num_train_steps = num_warmup_steps the rate computation still completes.
C2_NoDivisionByZero ==
  (num_train_steps = num_warmup_steps) => pc # "ZeroDivisionError"

\* C3: when the two-group trainers could not be constructed, train() goes on
\* with the substitute trainer bound and no failure comes from the fallback.
C3_FallbackTrains ==
  ("trainer_w" \notin bound /\ pc \notin {"train", "except"})
    => ("trainer" \in bound /\ pc # "NameError")

\* C4: for 1 <= step_num <= num_train_steps and num_warmup_steps <
\* num_train_steps, the rate set on the trainers is base * s / warmup during
\* warmup and base * (1 - (s - warmup) / (total - warmup)) afterwards; it does
\* not decrease from one step to the next during warmup, does not increase
\* afterwards, and is 0 at step_num = num_train_steps.
C4_ScheduleMatchesReference ==
  [][ ( /\ pc' = "forward"
        /\ 1 <= step_num'
        /\ step_num' <= num_train_steps'
        /\ num_warmup_steps' < num_train_steps' )
      => /\ learning_rate'.den > 0
         /\ IF step_num' < num_warmup_steps'
            THEN learning_rate'.num * num_warmup_steps'
                   = lr * step_num' * learning_rate'.den
            ELSE learning_rate'.num * (num_train_steps' - num_warmup_steps')
                   = lr * (num_train_steps' - step_num') * learning_rate'.den
         /\ (step_num' = num_train_steps') => learning_rate'.num = 0
         /\ (step_num' >= 2 /\ step_num' < num_warmup_steps')
              => ~RatLess(learning_rate', learning_rate)
         /\ (step_num' >= 2 /\ step_num' - 1 >= num_warmup_steps')
              => ~RatLess(learning_rate, learning_rate')
    ]_vars

\* C4 witness: the last scheduled step is reached after a warmup phase of at
\* least two steps, and the rate set there is 0
C4_Witness ==
  /\ pc = "forward"
  /\ num_warmup_steps >= 2
  /\ step_num = num_train_steps
  /\ learning_rate.num = 0

\* the batches of the accumulation window that ends at batch b of epoch e
WindowOf(e, b) == [j \in 1..accumulate |-> <<e, b - accumulate + j>>]

\* C5: with A > 1, the buffer applied by every optimizer update is the sum,
\* each batch once, of the gradients of the A batches of the current window;
\* the buffer is empty after the clearing at the first batch of a window.
C5_AppliedGradIsWindowSum ==
  accumulate > 1
    => /\ \A i \in DOMAIN params :
            params[i].grad = WindowOf(params[i].at[1], params[i].at[2])
       /\ (pc = "schedule" /\ batch_id % accumulate = 0) => grad = << >>

\* C5 witness: an update in the second epoch, after the first epoch ended
\* with an incomplete window
C5_Witness ==
  /\ accumulate > 1
  /\ num_batches % accumulate # 0
  /\ Len(params) >= 2
  /\ params[Len(params)].at[1] = 1

\* C6: step_num never decreases; with A > 1, at every optimizer update
\* step_num is the number of updates made so far, and the rate does not
\* change inside a window.
C6_StepCountsUpdates ==
  [][ /\ step_num' >= step_num
      /\ (accumulate > 1 /\ Len(params') = Len(params) + 1)
           => step_num' = Len(params')
      /\ (accumulate > 1 /\ pc' = "forward" /\ batch_id % accumulate # 0)
           => RatEq(learning_rate', learning_rate)
    ]_vars

\* C7: without accumulation and with warmup_ratio 0, every training batch
\* is followed by exactly one optimizer update, and the rate strictly
\* decreases from each update to the next.
C7_OneUpdatePerBatchDecreasing ==
  (accumulate = 0 /\ warmup_ratio = 0)
    => /\ pc # "ZeroDivisionError"
       /\ (pc = "log") => Len(params) = epoch_id * num_batches + batch_id + 1
       /\ \A i \in 1..(Len(params) - 1) :
            RatLess(params[i + 1].lr, params[i].lr)

\* C8: evaluate() is entered once per epoch, after the epoch's last training
\* batch, and no step of it changes the parameters, the gradient buffers,
\* the step counter or the learning rate.
C8_EvaluateReadOnly ==
  [][ /\ (pc \in {"evaluate", "dev_batch"})
           => /\ params' = params
              /\ grad' = grad
              /\ step_num' = step_num
              /\ learning_rate' = learning_rate
      /\ (pc' = "evaluate")
           => (pc = "batch" /\ batch_id = num_batches
               /\ validations = epoch_id)
      /\ (pc' = "done") => validations' = epochs'
    ]_vars

\* C8 witness: the evaluation of the second epoch has run over the dev set
\* while the gradient buffer is non-empty and updates have been applied
C8_Witness ==
  /\ pc = "dev_batch"
  /\ dev_id = num_dev_batches
  /\ epoch_id = 1
  /\ grad # << >>
  /\ Len(params) >= 1

\* C9: a progress line is logged only at a batch at which the optimizer
\* update was applied.
C9_LogOnlyAfterUpdate ==
  \A i \in DOMAIN logs : \E j \in DOMAIN params : params[j].at = logs[i].at

\* C10: for warmup_ratio < 1, step_num never exceeds num_train_steps, and the
\* rate set on the trainers is never negative and never above the base rate.
C10_StepWithinTrainSteps ==
  (warmup_ratio < WarmupDen /\ pc \notin {"train", "except", "steps"})
    => /\ step_num <= num_train_steps
       /\ learning_rate.num >= 0
       /\ ~RatLess(Rat(lr, 1), learning_rate)

====
